---- MODULE Spec2Model ----
(***************************************************************************)
(* Model of src/inventory_data.py: the Streamlit inventory dashboard.      *)
(*                                                                         *)
(* Three specifications share the definitions below:                       *)
(*   Spec        the application: sessions running main() against the      *)
(*               process-wide st.cache_data entry and the database;        *)
(*   FilterSpec  apply_filters / display_dashboard applied to datasets     *)
(*               drawn from a bounded set (missing values included);       *)
(*   QuerySpec   the SQL text of get_inventory_data evaluated over bounded *)
(*               tables, followed by load_inventory_data's clean-up.       *)
(*                                                                         *)
(* A DataFrame is [columns, rows]: rows is the sequence of records in      *)
(* index order, columns says whether the frame has any column at all       *)
(* (pd.DataFrame() has none).  Python objects that the code copies or      *)
(* mutates live in a heap (a sequence of frames, a reference is an index), *)
(* so that "works on a copy" is something the model computes.              *)
(* The columns pt_desc2 and MaterialCost are selected by the query and     *)
(* never read afterwards; they are left out of the records.                *)
(***************************************************************************)
EXTENDS Integers, Sequences, FiniteSets, TLC

VARIABLES
    \* ---- Spec: the running application
    now,        \* wall clock, in ticks of SecondsPerTick seconds
    cache,      \* st.cache_data entry of load_inventory_data (process-wide)
    session,    \* st.session_state of each browser session: the 'data' key
    view,       \* per session: what its last run rendered and where its data came from
    suspended,  \* get_connection generators left suspended with an open connection
    run,        \* what the last run of main() did
    runtime,    \* how the installed contextlib and pandas behave where versions differ
    \* ---- FilterSpec
    given,      \* the dataset as it was handed to the filter layer
    inp,        \* the same object after the calls made so far
    sel,        \* the selections of the last call
    out,        \* what the last call returned / rendered
    \* ---- QuerySpec
    db,         \* the four tables the query reads
    raw,        \* the rows the query returned
    loaded      \* what load_inventory_data made of them

appVars    == <<now, cache, session, view, suspended, run, runtime>>
filterVars == <<given, inp, sel, out>>
queryVars  == <<db, raw, loaded>>
vars       == <<now, cache, session, view, suspended, run, runtime, given, inp, sel, out, db, raw, loaded>>

(***************************************************************************)
(* Values                                                                  *)
(***************************************************************************)
\* Python None / pandas NaN in an object column.
None == "<None>"

\* A nullable SQL number: <<>> is NULL, <<v>> is the value v.
NULL == <<>>
Val(v) == <<v>>
IsNull(x) == x = <<>>

\* T-SQL ISNULL(x, d)
ISNULL(x, d) == IF IsNull(x) THEN Val(d) ELSE x

\* T-SQL x * y and x + y: NULL if either operand is NULL
Mul(x, y) == IF IsNull(x) \/ IsNull(y) THEN NULL ELSE Val(x[1] * y[1])
Add(x, y) == IF IsNull(x) \/ IsNull(y) THEN NULL ELSE Val(x[1] + y[1])

\* pd.DataFrame()
NewDataFrame == [columns |-> FALSE, rows |-> <<>>]

\* DataFrame.empty: some axis has length 0
empty(f) == ~f.columns \/ Len(f.rows) = 0

\* A reference to no object (Python None where a frame is expected).
NoneRef == 0

(***************************************************************************)
(* Heap steps: each returns [h |-> the heap afterwards, r |-> a reference] *)
(***************************************************************************)
\* A new object holding frame f.
Alloc(h, f) == [h |-> Append(h, f), r |-> Len(h) + 1]

\* df.copy()
Copy(h, id) == Alloc(h, h[id])

\* Series.fillna(''): missing values become the empty string
fillna(v) == IF v = None THEN "" ELSE v

\* df[col] = df[col].fillna('')  -- column assignment on the object itself
FillNaColumn(h, id, col) ==
    [h EXCEPT ![id].rows = [i \in DOMAIN @ |-> [@[i] EXCEPT ![col] = fillna(@)]]]

\* df[df[col].isin(values)]  -- boolean indexing builds a new object
Isin(h, id, col, values) ==
    LET Keep(rec) == rec[col] \in values
    IN  Alloc(h, [h[id] EXCEPT !.rows = SelectSeq(@, Keep)])

(***************************************************************************)
(* apply_filters (lines 36-60)                                             *)
(***************************************************************************)
\* The three filters of lines 48-58 applied to the object f of heap h.
FilterSteps(h, f, selected_design_groups, selected_prod_lines, selected_chr02) ==
    LET s0 == [h |-> h, r |-> f]
        s1 == IF selected_design_groups # {}
              THEN Isin(s0.h, s0.r, "pt_dsgn_grp", selected_design_groups) ELSE s0
        s2 == IF selected_prod_lines # {}
              THEN Isin(s1.h, s1.r, "pt_prod_line", selected_prod_lines) ELSE s1
        s3 == IF selected_chr02 # {}
              THEN Isin(s2.h, s2.r, "pt__chr02", selected_chr02) ELSE s2
    IN  s3

\* Lines 44-46: the three fillna assignments on object f.
FillNaSteps(h, f) ==
    FillNaColumn(FillNaColumn(FillNaColumn(h, f, "pt_dsgn_grp"), f, "pt_prod_line"), f, "pt__chr02")

\* apply_filters with line 41 written "filtered_df = df": no copy is taken.
apply_filters_no_copy(h, df, selected_design_groups, selected_cogs_type, selected_prod_lines, selected_chr02) ==
    IF df = NoneRef \/ empty(h[df])
    THEN Alloc(h, NewDataFrame)
    ELSE FilterSteps(FillNaSteps(h, df), df,
                     selected_design_groups, selected_prod_lines, selected_chr02)

\* apply_filters with the "if selected_design_groups:" test of line 48 missing.
apply_filters_no_guard(h, df, selected_design_groups, selected_cogs_type, selected_prod_lines, selected_chr02) ==
    IF df = NoneRef \/ empty(h[df])
    THEN Alloc(h, NewDataFrame)
    ELSE LET c  == Copy(h, df)
             s1 == Isin(FillNaSteps(c.h, c.r), c.r, "pt_dsgn_grp", selected_design_groups)
         IN  FilterSteps(s1.h, s1.r, {}, selected_prod_lines, selected_chr02)

\* apply_filters with line 57 testing pt_prod_line instead of pt__chr02.
apply_filters_wrong_column(h, df, selected_design_groups, selected_cogs_type, selected_prod_lines, selected_chr02) ==
    IF df = NoneRef \/ empty(h[df])
    THEN Alloc(h, NewDataFrame)
    ELSE LET c  == Copy(h, df)
             s2 == FilterSteps(FillNaSteps(c.h, c.r), c.r,
                               selected_design_groups, selected_prod_lines, {})
         IN  IF selected_chr02 # {}
             THEN Isin(s2.h, s2.r, "pt_prod_line", selected_chr02) ELSE s2

\* apply_filters(df, ...): returns [h, r], r the returned frame.
apply_filters(h, df, selected_design_groups, selected_cogs_type, selected_prod_lines, selected_chr02) ==
    IF df = NoneRef \/ empty(h[df])
    THEN Alloc(h, NewDataFrame)                                   \* line 39
    ELSE LET c == Copy(h, df)                                     \* line 41
         IN  FilterSteps(FillNaSteps(c.h, c.r), c.r,              \* lines 44-58
                         selected_design_groups, selected_prod_lines, selected_chr02)

(***************************************************************************)
(* Helpers of the presentation code                                        *)
(***************************************************************************)
RECURSIVE SumOver(_, _)
\* Series.sum() of column col over a sequence of records
SumOver(rows, col) ==
    IF rows = <<>> THEN 0 ELSE rows[1][col] + SumOver(Tail(rows), col)

RECURSIVE Insert(_, _, _, _)
\* rec put into the sorted sequence s behind every record that does not
\* have to follow it (equal keys keep their order of arrival)
Insert(s, rec, col, ascending) ==
    IF s = <<>> THEN <<rec>>
    ELSE IF (ascending /\ rec[col] < s[1][col]) \/ (~ascending /\ rec[col] > s[1][col])
         THEN <<rec>> \o s
         ELSE <<s[1]>> \o Insert(Tail(s), rec, col, ascending)

RECURSIVE sort_values(_, _, _)
\* DataFrame.sort_values(col, ascending=...) on the rows
sort_values(rows, col, ascending) ==
    IF rows = <<>> THEN <<>>
    ELSE Insert(sort_values(SubSeq(rows, 1, Len(rows) - 1), col, ascending),
                rows[Len(rows)], col, ascending)

\* The number of rows nlargest keeps (line 94).
TopN == 10

\* DataFrame.nlargest(n, col): the n rows with the largest col, largest first
nlargest(rows, n, col) ==
    LET s == sort_values(rows, col, FALSE)
    IN  SubSeq(s, 1, IF Len(s) < n THEN Len(s) ELSE n)

\* The values of column col, each once, in order of first appearance (Series.unique()).
unique(rows, col) ==
    LET idx == {i \in DOMAIN rows : \A j \in 1..(i - 1) : rows[j][col] # rows[i][col]}
    IN  {rows[i][col] : i \in idx}

\* '${:,.2f}'.format(v) for an integer v below one thousand in absolute value
FormatMoney(v) == "$" \o ToString(v) \o ".00"

(***************************************************************************)
(* create_inventory_charts (lines 63-122)                                  *)
(***************************************************************************)
\* The frames it builds are new objects; the only assignment (hover_text,
\* line 95) is made on the copy of line 94.  Returns [h, figs].
create_inventory_charts(h, df, selected_cogs_type) ==
    IF df = NoneRef \/ empty(h[df])
    THEN [h |-> h, figs |-> FALSE]
    ELSE LET cogs_column == selected_cogs_type
             groups == unique(h[df].rows, "pt_dsgn_grp") \ {None}
             GroupSum(g) == SumOver(SelectSeq(h[df].rows, LAMBDA rec : rec.pt_dsgn_grp = g),
                                    cogs_column)
             \* groupby(...).sum().reset_index(): one record per group
             grouped == [columns |-> TRUE,
                         rows |-> LET S == {[pt_dsgn_grp |-> g, cogs |-> GroupSum(g)] : g \in groups}
                                  IN  CHOOSE q \in [1..Cardinality(S) -> S] :
                                          \A i, j \in DOMAIN q : i # j => q[i] # q[j]]
             a1 == Alloc(h, [grouped EXCEPT !.rows = sort_values(@, "cogs", TRUE)])
             \* df.nlargest(10, cogs_column).copy()
             a2 == Alloc(a1.h, [h[df] EXCEPT !.rows = nlargest(@, TopN, cogs_column)])
             \* top_parts['hover_text'] = ...
             h3 == [a2.h EXCEPT ![a2.r].rows =
                       [i \in DOMAIN @ |->
                           [c \in DOMAIN @[i] \cup {"hover_text"} |->
                               IF c = "hover_text" THEN FormatMoney(@[i][cogs_column])
                               ELSE @[i][c]]]]
         IN  [h |-> h3, figs |-> TRUE]

(***************************************************************************)
(* display_dashboard (lines 125-218)                                       *)
(***************************************************************************)
cogs_types == {"Total_COGS", "COGS_WH", "COGS_WIP", "COGS_EXLPICK"}

\* The options a multiselect offers for column col (lines 145-146, 153-154, 161)
options(f, col) == {g \in unique(f.rows, col) : g # None}

\* Returns [h, screen, filtered, table]: the heap afterwards, what was
\* rendered, the filtered frame and the formatted table (references).
display_dashboard(h, df, selected_cogs_type, selected_design_groups, selected_prod_lines, selected_chr02) ==
    IF df = NoneRef \/ empty(h[df])
    THEN [h |-> h, screen |-> "No data available to display",
          filtered |-> NoneRef, table |-> NoneRef]
    ELSE LET f == apply_filters(h, df, selected_design_groups, selected_cogs_type,
                                selected_prod_lines, selected_chr02)
         IN  IF empty(f.h[f.r])
             THEN [h |-> f.h, screen |-> "No data available after applying filters",
                   filtered |-> f.r, table |-> NoneRef]
             ELSE LET ch == create_inventory_charts(f.h, f.r, selected_cogs_type)
                      \* display_df = filtered_df.copy()
                      d  == Copy(ch.h, f.r)
                      \* display_df[col] = display_df[col].map('${:,.2f}'.format)
                      h2 == [d.h EXCEPT ![d.r].rows =
                               [i \in DOMAIN @ |->
                                   [c \in DOMAIN @[i] |->
                                       IF c \in cogs_types THEN FormatMoney(@[i][c])
                                       ELSE @[i][c]]]]
                  IN  [h |-> h2, screen |-> "dashboard", filtered |-> f.r, table |-> d.r]

(***************************************************************************)
(* get_inventory_data (lines 265-312): the query, evaluated                *)
(***************************************************************************)
RECURSIVE SumQty(_)
\* SUM(...) over a set of [k, q] terms (k tells equal amounts apart)
SumQty(S) ==
    IF S = {} THEN 0
    ELSE LET t == CHOOSE t \in S : TRUE IN t.q + SumQty(S \ {t})

\* ld_det LEFT JOIN xxwezoned_det ON ld_loc = xxwezoned_loc (lines 299-302):
\* one row per matching zone row, one row with a NULL area when none matches
LdZoned(d) ==
    {[ld |-> l, area |-> z.xxwezoned_area_id] :
        <<l, z>> \in {lz \in d.ld_det \X d.xxwezoned_det : lz[1].ld_loc = lz[2].xxwezoned_loc}}
    \cup {[ld |-> l, area |-> None] :
            l \in {l \in d.ld_det : \A z \in d.xxwezoned_det : z.xxwezoned_loc # l.ld_loc}}

\* SUM(CASE WHEN xz.xxwezoned_area_id = zone THEN ld.ld_qty_oh ELSE 0 END)
\* over the rows of part p (lines 295-297)
ZoneQty(d, p, zone) ==
    SumQty({[k |-> j, q |-> IF j.area = zone THEN j.ld.ld_qty_oh ELSE 0] :
                j \in {j \in LdZoned(d) : j.ld.ld_part = p}})

\* The derived table ldx (lines 292-305): one row per part that has ld_det rows
ldx(d) ==
    {[ld_part |-> p,
      WH_Qty |-> Val(ZoneQty(d, p, "WH")),
      WIP_Qty |-> Val(ZoneQty(d, p, "WIP")),
      EXLPICK_Qty |-> Val(ZoneQty(d, p, "EXLPICK"))] : p \in {l.ld_part : l \in d.ld_det}}

\* The row of ldx that is all NULL: what a LEFT JOIN supplies when nothing matches
NoLdx == [ld_part |-> None, WH_Qty |-> NULL, WIP_Qty |-> NULL, EXLPICK_Qty |-> NULL]

\* Total_COGS written as COGS_WH alone: a slip in line 282
SelectList_total_is_wh(pt, cst, x) ==
    LET wh  == ISNULL(x.WH_Qty, 0)
        wip == ISNULL(x.WIP_Qty, 0)
        exl == ISNULL(x.EXLPICK_Qty, 0)
    IN  [pt_part |-> pt.pt_part, pt_desc1 |-> pt.pt_desc1,
         pt_prod_line |-> pt.pt_prod_line, pt__chr02 |-> pt.pt__chr02,
         pt_dsgn_grp |-> pt.pt_dsgn_grp, sct_cst_tot |-> cst,
         WH_Qty |-> wh[1], WIP_Qty |-> wip[1], EXLPICK_Qty |-> exl[1],
         total_qty_avail |-> Add(Add(wh, wip), exl)[1],
         Total_COGS   |-> ISNULL(Mul(cst, wh), 0)[1],
         COGS_WH      |-> ISNULL(Mul(cst, wh), 0)[1],
         COGS_WIP     |-> ISNULL(Mul(cst, wip), 0)[1],
         COGS_EXLPICK |-> ISNULL(Mul(cst, exl), 0)[1]]

\* The SELECT list of PartInventory (lines 270-285) for a part row pt, its
\* standard cost cst (NULL when sct_det has no row) and its ldx row x
SelectList(pt, cst, x) ==
    LET wh  == ISNULL(x.WH_Qty, 0)
        wip == ISNULL(x.WIP_Qty, 0)
        exl == ISNULL(x.EXLPICK_Qty, 0)
    IN  [pt_part |-> pt.pt_part, pt_desc1 |-> pt.pt_desc1,
         pt_prod_line |-> pt.pt_prod_line, pt__chr02 |-> pt.pt__chr02,
         pt_dsgn_grp |-> pt.pt_dsgn_grp, sct_cst_tot |-> cst,
         WH_Qty |-> wh[1], WIP_Qty |-> wip[1], EXLPICK_Qty |-> exl[1],
         total_qty_avail |-> Add(Add(wh, wip), exl)[1],
         Total_COGS   |-> ISNULL(Mul(cst, Add(Add(wh, wip), exl)), 0)[1],
         COGS_WH      |-> ISNULL(Mul(cst, wh), 0)[1],
         COGS_WIP     |-> ISNULL(Mul(cst, wip), 0)[1],
         COGS_EXLPICK |-> ISNULL(Mul(cst, exl), 0)[1]]

\* FROM pt_mstr LEFT JOIN sct_det ... LEFT JOIN ldx ... WHERE pt_part_type
\* NOT IN ('xc', 'rc') (lines 286-307): the joined rows, each a [pt, cst, x, k]
\* (k names the sct_det row, so that two cost rows give two result rows)
PartInventory(d) ==
    LET kept == {pt \in d.pt_mstr : pt.pt_part_type # None /\ pt.pt_part_type \notin {"xc", "rc"}}
        Costs(pt) == {sd \in d.sct_det : sd.sct_part = pt.pt_part /\ sd.sct_sim = "Standard"}
        Ldx(pt) == IF \E x \in ldx(d) : x.ld_part = pt.pt_part
                   THEN CHOOSE x \in ldx(d) : x.ld_part = pt.pt_part
                   ELSE NoLdx
    IN  {[pt |-> pt, cst |-> sd.sct_cst_tot, x |-> Ldx(pt), k |-> sd.sct_site] :
            <<pt, sd>> \in {ps \in kept \X d.sct_det : ps[2] \in Costs(ps[1])}}
        \cup {[pt |-> pt, cst |-> NULL, x |-> Ldx(pt), k |-> None] :
                pt \in {pt \in kept : Costs(pt) = {}}}

\* SELECT * FROM PartInventory ORDER BY Total_COGS DESC (lines 309-310):
\* every order of the rows the ORDER BY allows (rows of equal Total_COGS may
\* come in any order)
get_inventory_data(d) ==
    LET J == PartInventory(d)
        Rec(j) == SelectList(j.pt, j.cst, j.x)
        orders == {q \in [1..Cardinality(J) -> J] :
                      /\ \A i, j \in DOMAIN q : i # j => q[i] # q[j]
                      /\ \A i, j \in DOMAIN q :
                            i < j => Rec(q[i]).Total_COGS >= Rec(q[j]).Total_COGS}
    IN  {[i \in DOMAIN q |-> Rec(q[i])] : q \in orders}

(***************************************************************************)
(* load_inventory_data, lines 236-258: from the fetched rows to the frame  *)
(***************************************************************************)
\* chunksize of pd.read_sql (line 236)
chunksize == 1000

RECURSIVE Chunks(_)
\* The frames pd.read_sql(..., chunksize) yields for the result rows
Chunks(rows) ==
    IF Len(rows) = 0 THEN <<>>
    ELSE IF Len(rows) <= chunksize THEN <<rows>>
    ELSE <<SubSeq(rows, 1, chunksize)>> \o Chunks(SubSeq(rows, chunksize + 1, Len(rows)))

RECURSIVE concat(_)
\* pd.concat(chunks, ignore_index=True) (line 244)
concat(chunks) ==
    IF chunks = <<>> THEN <<>> ELSE chunks[1] \o concat(Tail(chunks))

\* Line 248 written ">= 0"
KeepRow_nonnegative(rec) == rec.total_qty_avail >= 0

\* The row test of line 248: df['total_qty_avail'] != 0
KeepRow(rec) == rec.total_qty_avail # 0

\* Lines 244-258: concat, drop zero quantities, fill the missing categories.
\* astype(str) of line 251 leaves pt_part as it is: the query casts it to VARCHAR.
CleanUp(chunks) ==
    LET df == SelectSeq(concat(chunks), KeepRow)
    IN  [columns |-> TRUE,
         rows |-> [i \in DOMAIN df |->
                     [df[i] EXCEPT !.pt_dsgn_grp = fillna(@),
                                   !.pt_prod_line = fillna(@),
                                   !.pt__chr02 = fillna(@)]]]

(***************************************************************************)
(* get_connection (lines 11-33) under contextlib.contextmanager            *)
(***************************************************************************)
\* __enter__: the generator runs to its first yield.  connects says whether
\* pyodbc.connect (line 23) succeeds.  at is the yield it is suspended at.
get_connection_enter(connects) ==
    IF connects
    THEN [at |-> "yield conn", conn_open |-> TRUE, msgs |-> <<>>]                    \* line 25
    ELSE [at |-> "yield None", conn_open |-> FALSE,
          msgs |-> <<"Database connection error">>]                                 \* lines 26-29

\* __exit__ when the with-body raised nothing, or raised (raised = TRUE).
\* Returns whether the connection is still open when __exit__ is left, what
\* __exit__ raises, and whether the generator is left suspended.
\*  - no exception: next(gen) resumes after the yield, the finally of lines
\*    30-33 closes the connection, the generator ends.
\*  - exception thrown in at line 25: the except of line 26 catches it, reports
\*    it, and yields a second time at line 29.  contextlib answers with
\*    RuntimeError("generator didn't stop after throw()"); a contextlib that
\*    closes the stray generator first runs the finally (GeneratorExit at
\*    line 29), one that does not leaves it suspended, the connection open.
\*  - exception thrown in at line 29: it leaves the except block through the
\*    finally and comes back out of the generator.
get_connection_exit(gen, raised, closes_stray_generator) ==
    IF ~raised
    THEN [conn_open |-> FALSE, raises |-> "none", suspended |-> FALSE, msgs |-> <<>>]
    ELSE IF gen.at = "yield conn"
         THEN [conn_open |-> gen.conn_open /\ ~closes_stray_generator,
               raises |-> "RuntimeError",
               suspended |-> ~closes_stray_generator,
               msgs |-> <<"Database connection error">>]
         ELSE [conn_open |-> FALSE, raises |-> "original", suspended |-> FALSE, msgs |-> <<>>]

(***************************************************************************)
(* load_inventory_data (lines 221-262), the function st.cache_data wraps   *)
(***************************************************************************)
\* The points at which reading the result can fail: 0 is pd.read_sql itself
\* (the query is refused), k >= 1 is the k-th fetch of a chunk; the fetch after
\* the last chunk, which finds the result exhausted, is one of them.
NoFailure == -1
FailPoints(rows) == {NoFailure} \cup 0..(Len(Chunks(rows)) + 1)

\* The with-body of lines 229-258 on an open connection: [raised, chunks, ret]
\* ret is "none" when it raised, else which return statement was reached.
\* empty_result_chunk: whether read_sql yields one empty frame for a result
\* without rows (pandas versions differ) or yields nothing.
ReadAll(rows, failAt, empty_result_chunk) ==
    LET yielded == IF Len(rows) = 0 /\ empty_result_chunk THEN << <<>> >> ELSE Chunks(rows)
    IN  IF failAt # NoFailure /\ failAt <= Len(Chunks(rows)) + 1
        THEN [raised |-> TRUE, ret |-> "none",
              chunks |-> SubSeq(yielded, 1, IF failAt = 0 THEN 0
                                            ELSE IF failAt - 1 <= Len(yielded) THEN failAt - 1
                                            ELSE Len(yielded))]
        ELSE [raised |-> FALSE, chunks |-> yielded,
              ret |-> IF yielded = <<>> THEN "line 242" ELSE "line 258"]

\* load_inventory_data without the try/except of lines 224 and 259-262.
load_inventory_data_no_handler(connects, rows, failAt, rt) ==
    LET gen == get_connection_enter(connects)
    IN  IF ~gen.conn_open
        THEN LET x == get_connection_exit(gen, FALSE, rt.closes_stray_generator)
             IN  [raised |-> FALSE, value |-> NewDataFrame, connected |-> FALSE,
                  msgs |-> gen.msgs \o <<"Failed to establish database connection">> \o x.msgs,
                  open_at_exit |-> x.conn_open, suspended |-> x.suspended,
                  origin |-> "connect_failed"]
        ELSE LET body == ReadAll(rows, failAt, rt.empty_result_chunk)
                 x == get_connection_exit(gen, body.raised, rt.closes_stray_generator)
             IN  IF x.raises # "none"
                 THEN [raised |-> TRUE, value |-> NewDataFrame, connected |-> TRUE,
                       msgs |-> x.msgs,
                       open_at_exit |-> x.conn_open, suspended |-> x.suspended,
                       origin |-> "query_failed"]
                 ELSE IF body.ret = "line 242"
                 THEN [raised |-> FALSE, value |-> NewDataFrame, connected |-> TRUE,
                       msgs |-> <<"No data retrieved from database">>,
                       open_at_exit |-> x.conn_open, suspended |-> x.suspended,
                       origin |-> "empty_result"]
                 ELSE [raised |-> FALSE, value |-> CleanUp(body.chunks), connected |-> TRUE,
                       msgs |-> <<>>,
                       open_at_exit |-> x.conn_open, suspended |-> x.suspended,
                       origin |-> IF Len(rows) = 0 THEN "empty_result" ELSE "rows"]

\* One call of the function body.  connects, rows and failAt are what the
\* database does this time: whether it accepts the connection, the rows the
\* query yields, and where reading fails (NoFailure: nowhere).
\* Returns [raised, value, msgs, connected, open_at_exit, suspended, origin]:
\* raised says an exception left the function; open_at_exit that a connection
\* was still open when control left the with-block of line 228.
load_inventory_data(connects, rows, failAt, rt) ==
    LET gen == get_connection_enter(connects)                                       \* line 228
    IN  IF ~gen.conn_open
        THEN \* lines 229-231: conn is None; the return leaves the with-block
             LET x == get_connection_exit(gen, FALSE, rt.closes_stray_generator)
             IN  [raised |-> FALSE, value |-> NewDataFrame, connected |-> FALSE,
                  msgs |-> gen.msgs \o <<"Failed to establish database connection">> \o x.msgs,
                  open_at_exit |-> x.conn_open, suspended |-> x.suspended,
                  origin |-> "connect_failed"]
        ELSE LET body == ReadAll(rows, failAt, rt.empty_result_chunk)               \* lines 234-238
                 x == get_connection_exit(gen, body.raised, rt.closes_stray_generator)
             IN  IF x.raises # "none"
                 THEN \* lines 259-262: whatever left the with-block is caught
                      [raised |-> FALSE, value |-> NewDataFrame, connected |-> TRUE,
                       msgs |-> x.msgs \o <<"Data loading error">>,
                       open_at_exit |-> x.conn_open, suspended |-> x.suspended,
                       origin |-> "query_failed"]
                 ELSE IF body.ret = "line 242"
                 THEN \* lines 240-242
                      [raised |-> FALSE, value |-> NewDataFrame, connected |-> TRUE,
                       msgs |-> <<"No data retrieved from database">>,
                       open_at_exit |-> x.conn_open, suspended |-> x.suspended,
                       origin |-> "empty_result"]
                 ELSE \* lines 244-258
                      [raised |-> FALSE, value |-> CleanUp(body.chunks), connected |-> TRUE,
                       msgs |-> <<>>,
                       open_at_exit |-> x.conn_open, suspended |-> x.suspended,
                       origin |-> IF Len(rows) = 0 THEN "empty_result" ELSE "rows"]

\* The messages st.error emits (st.warning and st.info are not errors).
ErrorMessages ==
    {"Database connection error", "Failed to establish database connection",
     "Data loading error", "Application error", "No data available to display",
     "No data available. Please check database connection and try again."}

(***************************************************************************)
(* Bounds and the inputs drawn within them                                 *)
(***************************************************************************)
MaxTicks == 3        \* the clock stops here
MaxSuspended == 1    \* generators left suspended at a time
MaxRows == 2         \* rows of a dataset handed to the filter layer
MaxLdRows == 2       \* ld_det rows of the part the query is studied on

\* One tick of the clock is half an hour.
SecondsPerTick == 30 * 60

\* ttl of st.cache_data (line 221), in seconds
ttl == 3600

Sessions == {"s1", "s2"}

\* xxwezoned_det: three locations in the zones the query names, one in
\* another zone; location "LX" has no row.
ZoneTable ==
    {[xxwezoned_loc |-> "LWH",  xxwezoned_area_id |-> "WH"],
     [xxwezoned_loc |-> "LWIP", xxwezoned_area_id |-> "WIP"],
     [xxwezoned_loc |-> "LEXL", xxwezoned_area_id |-> "EXLPICK"],
     [xxwezoned_loc |-> "LQC",  xxwezoned_area_id |-> "QC"]}
Locations == {"LWH", "LWIP", "LEXL", "LQC", "LX"}

PtRow(part, type, dg, pl, chr) ==
    [pt_part |-> part, pt_desc1 |-> "desc", pt_prod_line |-> pl, pt__chr02 |-> chr,
     pt_dsgn_grp |-> dg, pt_part_type |-> type]
SctRow(part, sim, site, cst) ==
    [sct_part |-> part, sct_sim |-> sim, sct_site |-> site, sct_cst_tot |-> cst]
LdRow(part, loc, qty) == [ld_part |-> part, ld_loc |-> loc, ld_qty_oh |-> qty]
Database(pt, sct, ld) ==
    [pt_mstr |-> pt, sct_det |-> sct, ld_det |-> ld, xxwezoned_det |-> ZoneTable]

\* The states of the database the application meets: no part at all; two
\* parts in stock; one part whose stock is zero.
Snapshots ==
    {Database({}, {}, {}),
     Database({PtRow("P1", "", "A", "L1", None), PtRow("P2", "", None, "L2", None)},
              {SctRow("P1", "Standard", "S1", Val(2)), SctRow("P2", "Standard", "S1", Val(3))},
              {LdRow("P1", "LWH", 1), LdRow("P2", "LWIP", 2)}),
     Database({PtRow("P1", "", "A", "L1", None)},
              {SctRow("P1", "Standard", "S1", Val(2))},
              {LdRow("P1", "LWH", 0)})}

\* The subsets of S with at most one element
AtMostOne(S) == {{}} \cup {{x} : x \in S}

\* The results the query can give on these: for each, every order allowed.
QueryResults == UNION {get_inventory_data(d) : d \in Snapshots}

\* What a user picks in the sidebar of the dashboard drawn for frame f
AppSelections(f) ==
    [cogs : {"Total_COGS"},
     dgs : AtMostOne(options(f, "pt_dsgn_grp")),
     pls : AtMostOne(options(f, "pt_prod_line")),
     chrs : {{}}]

(***************************************************************************)
(* Spec: sessions running main() (lines 315-368)                           *)
(***************************************************************************)
NoRun ==
    [s |-> "", click |-> "none", body_ran |-> FALSE, connected |-> FALSE,
     failure |-> "none", returned |-> FALSE, error_shown |-> FALSE,
     open_at_exit |-> FALSE, app_error |-> FALSE, age |-> 0 - 1]

AppInit ==
    /\ now = 0
    /\ cache = [valid |-> FALSE, value |-> NewDataFrame, loaded_at |-> 0, origin |-> ""]
    /\ session = [s \in Sessions |-> [key |-> FALSE, data |-> <<>>]]
    /\ view = [s \in Sessions |-> [screen |-> "", origin |-> "", loaded_at |-> 0]]
    /\ suspended = 0
    /\ run = NoRun
    /\ runtime \in [closes_stray_generator : BOOLEAN, empty_result_chunk : BOOLEAN]

\* The other two specifications leave the application where it starts.
AppIdle ==
    /\ now = 0
    /\ cache = [valid |-> FALSE, value |-> NewDataFrame, loaded_at |-> 0, origin |-> ""]
    /\ session = [s \in Sessions |-> [key |-> FALSE, data |-> <<>>]]
    /\ view = [s \in Sessions |-> [screen |-> "", origin |-> "", loaded_at |-> 0]]
    /\ suspended = 0
    /\ run = NoRun
    /\ runtime = [closes_stray_generator |-> TRUE, empty_result_chunk |-> TRUE]

\* st.cache_data(ttl=3600): the stored result is served until ttl seconds
\* after it was stored.
CacheHit == cache.valid /\ (now - cache.loaded_at) * SecondsPerTick < ttl

\* What kind of failure the inputs of a load amount to.
Failure(connects, rows, failAt) ==
    IF ~connects THEN "connect"
    ELSE IF failAt = NoFailure THEN "none"
    ELSE IF failAt = 0 THEN "execute"
    ELSE IF failAt = 1 THEN "fetch" ELSE "later_fetch"

\* One run of main() in session s: the script is run from top to bottom for
\* the first access of a session and after every click or widget change.
\* click is the button pressed, if any (buttons exist once a first run has
\* drawn them).
Main(s) ==
    \E click \in {"none", "test", "refresh"} :
      /\ click # "none" => session[s].key
      /\ LET data0 == IF session[s].key THEN session[s].data ELSE <<>>    \* lines 327-328
             calls == click = "refresh" \/ data0 = <<>>                   \* lines 341-346
             body_runs == calls /\ ~CacheHit
             uses_db == click = "test" \/ body_runs
         IN  \E connects \in IF uses_db THEN BOOLEAN ELSE {TRUE} :
             \E rows \in IF body_runs /\ connects THEN QueryResults ELSE {<<>>} :
             \E failAt \in IF body_runs /\ connects THEN FailPoints(rows) ELSE {NoFailure} :
               LET \* lines 334-339: the connection test
                   tgen == get_connection_enter(connects)
                   texit == get_connection_exit(tgen, FALSE, runtime.closes_stray_generator)
                   tmsgs == IF click = "test"
                            THEN tgen.msgs \o <<IF tgen.conn_open
                                                THEN "Database connection successful!"
                                                ELSE "Database connection failed!">>
                            ELSE <<>>
                   \* lines 341-346: load_inventory_data() through st.cache_data
                   L == load_inventory_data(connects, rows, failAt, runtime)
                   thrown == body_runs /\ L.raised
                   data1 == IF ~calls \/ thrown THEN data0
                            ELSE IF body_runs THEN <<L.value>> ELSE <<cache.value>>
                   lmsgs == IF body_runs THEN L.msgs ELSE <<>>
               IN  /\ body_runs /\ L.suspended => suspended < MaxSuspended
                   /\ cache' = IF body_runs /\ ~L.raised
                               THEN [valid |-> TRUE, value |-> L.value, loaded_at |-> now,
                                     origin |-> L.origin]
                               ELSE cache
                   /\ suspended' = IF body_runs /\ L.suspended THEN suspended + 1 ELSE suspended
                   /\ \E choice \in IF thrown \/ empty(data1[1]) THEN {<<>>}
                                    ELSE AppSelections(data1[1]) :
                        LET \* lines 348-363
                            D == display_dashboard(data1, 1, choice.cogs, choice.dgs,
                                                   choice.pls, choice.chrs)
                            screen == IF thrown THEN "Application error"            \* line 366
                                      ELSE IF empty(data1[1])
                                      THEN "No data available. Please check database connection and try again."
                                      ELSE D.screen
                            data2 == IF thrown \/ empty(data1[1]) THEN data1 ELSE <<D.h[1]>>
                            msgs == tmsgs \o lmsgs \o <<screen>>
                        IN  /\ session' = [session EXCEPT ![s] = [key |-> TRUE, data |-> data2]]
                            /\ view' = [view EXCEPT ![s] =
                                          [screen |-> screen,
                                           origin |-> IF ~calls \/ thrown THEN view[s].origin
                                                      ELSE IF body_runs THEN L.origin
                                                      ELSE cache.origin,
                                           loaded_at |-> IF ~calls \/ thrown THEN view[s].loaded_at
                                                         ELSE IF body_runs THEN now
                                                         ELSE cache.loaded_at]]
                            /\ run' = [s |-> s, click |-> click, body_ran |-> body_runs,
                                       connected |-> body_runs /\ L.connected,
                                       failure |-> IF body_runs
                                                   THEN Failure(connects, rows, failAt)
                                                   ELSE "none",
                                       returned |-> body_runs /\ ~L.raised,
                                       error_shown |-> \E i \in DOMAIN lmsgs :
                                                          lmsgs[i] \in ErrorMessages,
                                       open_at_exit |-> \/ body_runs /\ L.open_at_exit
                                                        \/ click = "test" /\ texit.conn_open,
                                       app_error |-> thrown,
                                       age |-> IF data0 = <<>> THEN 0 - 1
                                               ELSE now - view[s].loaded_at]
      /\ UNCHANGED <<now, runtime>>
      /\ UNCHANGED filterVars
      /\ UNCHANGED queryVars

\* Time passes.
Tick ==
    /\ now < MaxTicks
    /\ now' = now + 1
    /\ UNCHANGED <<cache, session, view, suspended, run, runtime>>
    /\ UNCHANGED filterVars
    /\ UNCHANGED queryVars

\* The garbage collector finalizes the suspended generators: each is closed,
\* which runs the finally of lines 30-33.
Finalize ==
    /\ suspended > 0
    /\ suspended' = 0
    /\ UNCHANGED <<now, cache, session, view, run, runtime>>
    /\ UNCHANGED filterVars
    /\ UNCHANGED queryVars

(***************************************************************************)
(* FilterSpec: the filter and presentation functions on bounded datasets   *)
(***************************************************************************)
PartName(i) == "P" \o ToString(i)

\* The records a dataset may hold in row i: a design group that is present,
\* empty or missing, a product line and a classification code of which at
\* most one is missing, with the numbers the query would derive for
\* i units in the warehouse and one in WIP at a unit cost of 2.
RowsAt(i) ==
    {SelectList(PtRow(PartName(i), "", dg, pc[1], pc[2]), Val(2),
                [ld_part |-> PartName(i), WH_Qty |-> Val(i), WIP_Qty |-> Val(1),
                 EXLPICK_Qty |-> NULL]) :
        dg \in {None, "", "A"},
        pc \in {<<"A", "A">>, <<"A", None>>, <<None, "A">>}}

Datasets ==
    {NewDataFrame} \cup
    {[columns |-> TRUE, rows |-> q] :
        q \in UNION {{q \in [1..n -> UNION {RowsAt(i) : i \in 1..n}] :
                         \A i \in 1..n : q[i] \in RowsAt(i)} : n \in 0..MaxRows}}

NotCalled == [called |-> FALSE, returned |-> NewDataFrame, screen |-> "", table |-> NewDataFrame]

FilterIdle ==
    /\ given = NewDataFrame
    /\ inp = NewDataFrame
    /\ sel = [cogs |-> "Total_COGS", dgs |-> {}, pls |-> {}, chrs |-> {}]
    /\ out = NotCalled

QueryIdle ==
    /\ db = Database({}, {}, {})
    /\ raw = [ran |-> FALSE, rows |-> <<>>]
    /\ loaded = NewDataFrame

FilterInit ==
    /\ given \in Datasets
    /\ inp = given
    /\ sel = [cogs |-> "Total_COGS", dgs |-> {}, pls |-> {}, chrs |-> {}]
    /\ out = NotCalled
    /\ AppIdle
    /\ QueryIdle

\* The selections become c; apply_filters and then display_dashboard are
\* called on the dataset object.  inp is that object afterwards.
Call(c) ==
    LET r == apply_filters(<<inp>>, 1, c.dgs, c.cogs, c.pls, c.chrs)
        D == display_dashboard(r.h, 1, c.cogs, c.dgs, c.pls, c.chrs)
    IN  /\ sel' = c
        /\ inp' = D.h[1]
        /\ out' = [called |-> TRUE, returned |-> r.h[r.r], screen |-> D.screen,
                   table |-> IF D.table = NoneRef THEN NewDataFrame ELSE D.h[D.table]]
        /\ UNCHANGED given
        /\ UNCHANGED appVars
        /\ UNCHANGED queryVars

Toggle(S, v) == IF v \in S THEN S \ {v} ELSE S \cup {v}

ToggleDesignGroup == \E v \in {"", "A"} : Call([sel EXCEPT !.dgs = Toggle(@, v)])
ToggleProdLine    == \E v \in {"A"} : Call([sel EXCEPT !.pls = Toggle(@, v)])
ToggleChr02       == \E v \in {"A"} : Call([sel EXCEPT !.chrs = Toggle(@, v)])
SelectCogsType    == \E v \in {"Total_COGS", "COGS_WIP"} : Call([sel EXCEPT !.cogs = v])

FilterNext == ToggleDesignGroup \/ ToggleProdLine \/ ToggleChr02 \/ SelectCogsType
FilterSpec == FilterInit /\ [][FilterNext]_vars

(***************************************************************************)
(* QuerySpec: the query and the clean-up on bounded tables                 *)
(***************************************************************************)
RECURSIVE UpTo(_, _)
\* The subsets of S with at most k elements
UpTo(S, k) ==
    IF k = 0 THEN {{}}
    ELSE LET prev == UpTo(S, k - 1) IN prev \cup {T \cup {x} : T \in prev, x \in S}

\* Part P1 in every shape: excluded by its type or not, with or without a
\* design group, with any of three cost rows (a standard cost, a standard
\* cost of NULL at another site, a cost of another simulation), with up to
\* MaxLdRows stock rows at any location.  Part P2, when present, has one
\* standard cost and one unit or none in the warehouse.
Databases ==
    {Database(pt1 \cup p2.pt, sct1 \cup p2.sct, ld1 \cup p2.ld) :
        pt1 \in {{PtRow("P1", type, dg, "L1", None)} : type \in {"", "xc"}, dg \in {None, "A"}},
        p2 \in {[pt |-> {}, sct |-> {}, ld |-> {}]} \cup
               {[pt |-> {PtRow("P2", "", "B", None, "C")},
                 sct |-> {SctRow("P2", "Standard", "S1", Val(3))},
                 ld |-> {LdRow("P2", "LWH", qty)}] : qty \in {0, 1}},
        sct1 \in SUBSET {SctRow("P1", "Standard", "S1", Val(2)),
                         SctRow("P1", "Standard", "S2", NULL),
                         SctRow("P1", "Current", "S1", Val(3))},
        ld1 \in UpTo({LdRow("P1", loc, qty) : loc \in Locations, qty \in {-1, 0, 1, 2}},
                     MaxLdRows)}

QueryInit ==
    /\ db \in Databases
    /\ raw = [ran |-> FALSE, rows |-> <<>>]
    /\ loaded = NewDataFrame
    /\ AppIdle
    /\ FilterIdle

\* The query runs and load_inventory_data turns its rows into the dataset.
RunQuery ==
    /\ ~raw.ran
    /\ \E rows \in get_inventory_data(db) :
       \E rt \in [closes_stray_generator : {TRUE}, empty_result_chunk : BOOLEAN] :
          /\ raw' = [ran |-> TRUE, rows |-> rows]
          /\ loaded' = load_inventory_data(TRUE, rows, NoFailure, rt).value
    /\ UNCHANGED db
    /\ UNCHANGED appVars
    /\ UNCHANGED filterVars

QueryNext == RunQuery
QuerySpec == QueryInit /\ [][QueryNext]_vars

(***************************************************************************)
(* Spec                                                                    *)
(***************************************************************************)
Init == AppInit /\ FilterIdle /\ QueryIdle
Next == (\E s \in Sessions : Main(s)) \/ Tick \/ Finalize
Spec == Init /\ [][Next]_vars

(***************************************************************************)
(* Properties of the application (Spec)                                    *)
(***************************************************************************)
\* C1: every run of main() in which "Refresh Data" was clicked runs the body
\* of load_inventory_data, that is, goes to the database again, whether the
\* stored result is an hour old or not and whether it came from a failed load.
C1_RefreshReloads == run.click = "refresh" => run.body_ran

\* C2: a run made more than ttl seconds after the dataset the session holds
\* was loaded goes to the database again before it presents data, and a run
\* made within ttl seconds without a refresh request does not.
C2_ExpiresAfterTtl ==
    /\ run.age * SecondsPerTick > ttl => run.body_ran
    /\ run.age >= 0 /\ run.age * SecondsPerTick < ttl /\ run.click # "refresh" => ~run.body_ran

C4_FailureDistinctFromEmpty ==
    \A s, t \in Sessions :
        view[s].origin = "connect_failed" /\ view[t].origin = "empty_result"
            => /\ session[s].data # session[t].data
               /\ view[s].screen # view[t].screen

\* C5: whenever the database fails during a load (the connection is refused,
\* the query is refused, a chunk cannot be read), load_inventory_data returns
\* a dataset, an error message has been emitted, and no exception reaches
\* main.
C5_ErrorsAreCaught ==
    run.failure # "none" => run.returned /\ run.error_shown /\ ~run.app_error

\* C5, witness: a load in which the fetch after the first chunk failed has
\* returned, with an error on the page.
C5_Witness ==
    /\ run.failure = "later_fetch"
    /\ run.connected
    /\ run.returned
    /\ run.error_shown
    /\ empty(session[run.s].data[1])

(***************************************************************************)
(* Properties of the filter layer (FilterSpec)                             *)
(***************************************************************************)
\* The rows with the missing values of the three categories replaced by ''.
Normalized(rows) ==
    [i \in DOMAIN rows |->
        [rows[i] EXCEPT !.pt_dsgn_grp = IF @ = None THEN "" ELSE @,
                        !.pt_prod_line = IF @ = None THEN "" ELSE @,
                        !.pt__chr02 = IF @ = None THEN "" ELSE @]]

\* A record passes the selections: in every dimension with a selection its
\* value is one of the selected ones.
Passes(rec) ==
    /\ sel.dgs # {} => rec.pt_dsgn_grp \in sel.dgs
    /\ sel.pls # {} => rec.pt_prod_line \in sel.pls
    /\ sel.chrs # {} => rec.pt__chr02 \in sel.chrs

\* C6 as stated: apply_filters returns exactly the records of the dataset
\* that pass the selections.
C6_ExactlyThePassing ==
    out.called => out.returned.rows = SelectSeq(given.rows, Passes)

\* C6 as amended: apply_filters returns, in the order of the dataset, exactly
\* the records that pass the selections once a missing category counts as the
\* empty string, and returns them with the missing categories replaced by the
\* empty string; the cost metric plays no part.
C6_ExactlyThePassingNormalized ==
    out.called => out.returned.rows = SelectSeq(Normalized(given.rows), Passes)

\* C6, witness: all three selections are in force, '' is a selected design
\* group, a record whose design group is missing is returned and another
\* record is not, under a cost metric other than the default.
C6_Witness ==
    /\ out.called
    /\ sel.dgs # {} /\ sel.pls # {} /\ sel.chrs # {}
    /\ "" \in sel.dgs
    /\ sel.cogs = "COGS_WIP"
    /\ Len(given.rows) = 2
    /\ Len(out.returned.rows) = 1
    /\ \E i \in DOMAIN given.rows :
          /\ given.rows[i].pt_dsgn_grp = None
          /\ out.returned.rows[1].pt_part = given.rows[i].pt_part

NoSelection == sel.dgs = {} /\ sel.pls = {} /\ sel.chrs = {}

\* C9 as stated: with the three selections empty apply_filters returns the
\* records of the dataset unchanged, in their order.
C9_AllEmptyIsIdentity ==
    out.called /\ NoSelection => out.returned.rows = given.rows

\* C9 as amended: with the three selections empty apply_filters returns every
\* record of the dataset, in order, unchanged but for the missing categories,
\* which are replaced by the empty string.
C9_AllEmptyIsNormalizedInput ==
    out.called /\ NoSelection
        => /\ Len(out.returned.rows) = Len(given.rows)
           /\ \A i \in DOMAIN given.rows :
                 \A c \in DOMAIN given.rows[i] :
                    out.returned.rows[i][c] =
                        IF c \in {"pt_dsgn_grp", "pt_prod_line", "pt__chr02"}
                           /\ given.rows[i][c] = None
                        THEN "" ELSE given.rows[i][c]

\* C9, witness: apply_filters was called without any selection on two
\* records, one of them with a missing category.
C9_Witness ==
    /\ out.called
    /\ NoSelection
    /\ Len(given.rows) = 2
    /\ Len(out.returned.rows) = 2
    /\ \E i \in DOMAIN given.rows : given.rows[i].pt_prod_line = None

\* C10: after any number of calls of apply_filters and display_dashboard
\* (which calls create_inventory_charts) the dataset object is what it was
\* when it was handed over.
C10_DatasetUntouched == inp = given

\* C10, witness: a dashboard was drawn, charts and table included, from a
\* dataset with a missing design group, with a filter in force.
C10_Witness ==
    /\ out.called
    /\ out.screen = "dashboard"
    /\ sel.dgs # {}
    /\ Len(out.table.rows) >= 1
    /\ \E i \in DOMAIN given.rows : given.rows[i].pt_dsgn_grp = None
    /\ inp = given

(***************************************************************************)
(* Properties of the query and the clean-up (QuerySpec)                    *)
(***************************************************************************)
\* C7 as stated: every record of the loaded dataset has a strictly positive
\* total_qty_avail.
C7_OnlyPositive ==
    raw.ran => \A i \in DOMAIN loaded.rows : loaded.rows[i].total_qty_avail > 0

\* The part and quantity of each row, in order.
PartQty(rows) == [i \in DOMAIN rows |-> <<rows[i].pt_part, rows[i].total_qty_avail>>]

\* C7 as amended: the loaded dataset holds exactly the rows of the query whose
\* total_qty_avail is not zero, those with a negative total included.
C7_OnlyNonZero ==
    raw.ran =>
        /\ \A i \in DOMAIN loaded.rows : loaded.rows[i].total_qty_avail # 0
        /\ PartQty(loaded.rows)
             = PartQty(SelectSeq(raw.rows, LAMBDA rec : rec.total_qty_avail # 0))

\* C7, witness: the query returned a row with a total of zero, which is gone,
\* and a row with a negative total, which stayed.
C7_Witness ==
    /\ raw.ran
    /\ \E i \in DOMAIN raw.rows : raw.rows[i].total_qty_avail = 0
    /\ \E i \in DOMAIN loaded.rows : loaded.rows[i].total_qty_avail < 0
    /\ Len(loaded.rows) < Len(raw.rows)

\* C8: in every row the query returns, Total_COGS is the sum of COGS_WH,
\* COGS_WIP and COGS_EXLPICK.
C8_TotalIsSumOfZones ==
    raw.ran =>
        \A i \in DOMAIN raw.rows :
            raw.rows[i].Total_COGS
                = raw.rows[i].COGS_WH + raw.rows[i].COGS_WIP + raw.rows[i].COGS_EXLPICK

\* C8, witness: the query returned, for a part that has stock at the unzoned
\* location, a row without a unit cost and a row with a cost in WIP.
C8_Witness ==
    /\ raw.ran
    /\ \E l \in db.ld_det : l.ld_loc = "LX" /\ l.ld_qty_oh # 0
    /\ \E i \in DOMAIN raw.rows : IsNull(raw.rows[i].sct_cst_tot)
    /\ \E i \in DOMAIN raw.rows :
          /\ raw.rows[i].pt_part = "P1"
          /\ raw.rows[i].COGS_WIP # 0
          /\ raw.rows[i].Total_COGS # 0

====
